---- MODULE Spec2Model ----
(***************************************************************************)
(* Model of src/main.py: the sleep data plotter.  One run of main() is a   *)
(* linear pipeline parse_args -> load_data -> filter_data ->               *)
(* initialize_plot -> (plot_dots, plot_lines, plot_average_line) for each  *)
(* entry of SLEEP_TIME_TYPES -> render_plot -> interpreter exit.           *)
(*                                                                         *)
(* Dates are day numbers counted from a Monday, so dayofweek(d) = d % 7,   *)
(* Monday = 0.  Floating point values are modelled as exact rationals      *)
(* [num, den] in lowest terms; NaN (a missing value) is the rational with  *)
(* denominator 0.                                                          *)
(***************************************************************************)
EXTENDS Integers, Sequences, FiniteSets, TLC

VARIABLES pc, k, csv, args, df, dots, hlines, axhlines,
          outFile, inHandles, outHandles, raised

vars == <<pc, k, csv, args, df, dots, hlines, axhlines,
          outFile, inHandles, outHandles, raised>>

(* ------------------------------ bounds -------------------------------- *)

\* Dates of the input file range over 0..MaxDay.
MaxDay == 7

(* ---------------------------- constants ------------------------------- *)

\* argparse default for --after / --before when the flag is absent (None).
NoDate == 0 - 1

DATA_ALPHA == [num |-> 1, den |-> 10]

SLEEP_TIME_TYPES ==
    << [key |-> "totalSleepTime",   color |-> "#1f77b4", label |-> "Total"],
       [key |-> "shallowSleepTime", color |-> "#d62728", label |-> "Shallow"],
       [key |-> "deepSleepTime",    color |-> "#9467bd", label |-> "Deep"] >>

(* ------------------------ float arithmetic ---------------------------- *)

NaN == [num |-> 0, den |-> 0]

IsNaN(v) == v.den = 0

RECURSIVE GCD(_, _)
GCD(a, b) == IF b = 0 THEN a ELSE GCD(b, a % b)

Abs(n) == IF n < 0 THEN 0 - n ELSE n

\* The rational n/d (d > 0) in lowest terms.
Rat(n, d) == LET g == GCD(Abs(n), d)
             IN  [num |-> n \div g, den |-> d \div g]

\* float + float; NaN propagates.
FAdd(a, b) == IF IsNaN(a) \/ IsNaN(b) THEN NaN
              ELSE Rat(a.num * b.den + b.num * a.den, a.den * b.den)

\* float / positive integer; NaN propagates.
FDiv(a, n) == IF IsNaN(a) THEN NaN ELSE Rat(a.num, a.den * n)

(* --------------------------- load_data -------------------------------- *)

\* pd.to_datetime(cell, format='%Y-%m-%d') on one cell of the date column.
DateParses(cell) == cell.fmt = "%Y-%m-%d"

to_datetime(cell) == cell.day

\* pd.to_datetime(seconds, unit='s'): a date-time as day and second of day.
to_datetime_s(s) == [day |-> s \div 86400, sec |-> s % 86400]

\* load_data raises when a date cell does not match the format.
LoadRaises(file) == \E i \in 1..Len(file) : ~DateParses(file[i].date)

load_data_total_before_conversion(file) ==
    [i \in 1..Len(file) |->
        [date             |-> to_datetime(file[i].date),
         deepSleepTime    |-> FDiv(file[i].deepSleepTime, 60),
         shallowSleepTime |-> FDiv(file[i].shallowSleepTime, 60),
         totalSleepTime   |-> FAdd(file[i].deepSleepTime, file[i].shallowSleepTime),
         start            |-> to_datetime_s(file[i].start),
         stop             |-> to_datetime_s(file[i].stop)]]

load_data(file) ==
    [i \in 1..Len(file) |->
        LET deep    == FDiv(file[i].deepSleepTime, 60)
            shallow == FDiv(file[i].shallowSleepTime, 60)
        IN  [date             |-> to_datetime(file[i].date),
             deepSleepTime    |-> deep,
             shallowSleepTime |-> shallow,
             totalSleepTime   |-> FAdd(deep, shallow),
             start            |-> to_datetime_s(file[i].start),
             stop             |-> to_datetime_s(file[i].stop)]]

(* -------------------------- filter_data ------------------------------- *)

dayofweek(d) == d % 7

filter_data_inclusive(t, after, before, exclude_weekends) ==
    LET t1 == IF after # NoDate
              THEN SelectSeq(t, LAMBDA r : r.date >= after) ELSE t
        t2 == IF before # NoDate
              THEN SelectSeq(t1, LAMBDA r : r.date <= before) ELSE t1
        t3 == IF exclude_weekends
              THEN SelectSeq(t2, LAMBDA r : dayofweek(r.date) < 5) ELSE t2
    IN  t3

\* A filter that counts rows instead of comparing dates: drops the first
\* `after` rows of whatever table it is given.
filter_data_positional(t, after, before, exclude_weekends) ==
    LET t1 == IF after # NoDate
              THEN SubSeq(t, (IF after + 2 > Len(t) + 1 THEN Len(t) + 1 ELSE after + 2), Len(t))
              ELSE t
        t2 == IF before # NoDate
              THEN SelectSeq(t1, LAMBDA r : r.date < before) ELSE t1
        t3 == IF exclude_weekends
              THEN SelectSeq(t2, LAMBDA r : dayofweek(r.date) < 5) ELSE t2
    IN  t3

filter_data(t, after, before, exclude_weekends) ==
    LET t1 == IF after # NoDate
              THEN SelectSeq(t, LAMBDA r : r.date > after) ELSE t
        t2 == IF before # NoDate
              THEN SelectSeq(t1, LAMBDA r : r.date < before) ELSE t1
        t3 == IF exclude_weekends
              THEN SelectSeq(t2, LAMBDA r : dayofweek(r.date) < 5) ELSE t2
    IN  t3

(* ---------------------------- plotting -------------------------------- *)

\* plt.plot(df['date'], df[type], alpha, color, linestyle='None', marker='.')
plot_dots(t, sleep_time_type, color) ==
    [x     |-> [i \in 1..Len(t) |-> t[i].date],
     y     |-> [i \in 1..Len(t) |-> t[i][sleep_time_type]],
     alpha |-> DATA_ALPHA,
     color |-> color]

RECURSIVE FSum(_, _, _)
\* Sum of the non-NaN values of v at the positions lo..hi.
FSum(v, lo, hi) ==
    IF lo > hi THEN Rat(0, 1)
    ELSE IF IsNaN(v[hi]) THEN FSum(v, lo, hi - 1)
    ELSE FAdd(FSum(v, lo, hi - 1), v[hi])

\* Number of non-NaN values of v at the positions lo..hi.
FCount(v, lo, hi) == Cardinality({j \in lo..hi : ~IsNaN(v[j])})

\* Series.rolling(window).mean() at position i: min_periods = window, so
\* the result is NaN unless the window holds `window` observations.
rolling_mean(v, window, i) ==
    LET lo == IF i - window + 1 < 1 THEN 1 ELSE i - window + 1
        n  == FCount(v, lo, i)
    IN  IF n < window THEN NaN ELSE FDiv(FSum(v, lo, i), n)

rolling_window(exclude_weekends) == IF exclude_weekends THEN 5 ELSE 7

\* The table with the rollingMean column added (lines 60-61).
with_rollingMean(t, exclude_weekends, sleep_time_type) ==
    LET v == [i \in 1..Len(t) |-> t[i][sleep_time_type]]
    IN  [i \in 1..Len(t) |->
            [date             |-> t[i].date,
             deepSleepTime    |-> t[i].deepSleepTime,
             shallowSleepTime |-> t[i].shallowSleepTime,
             totalSleepTime   |-> t[i].totalSleepTime,
             start            |-> t[i].start,
             stop             |-> t[i].stop,
             rollingMean      |-> rolling_mean(v, rolling_window(exclude_weekends), i)]]

\* The plt.hlines calls of the loop of lines 67-68.
hlines_calls(h, color) ==
    [i \in 1..Len(h) |->
        [y      |-> h[i].rollingMean,
         xmin   |-> h[i].date - 7,
         xmax   |-> h[i].date,
         colors |-> color]]

\* plot_lines: what it leaves in the caller's table, and what it draws.
plot_lines_no_copy(t, exclude_weekends, sleep_time_type, color) ==
    LET hlines_df == with_rollingMean(t, exclude_weekends, sleep_time_type)
        mondays   == SelectSeq(hlines_df, LAMBDA r : dayofweek(r.date) = 0)
    IN  [df |-> hlines_df, calls |-> hlines_calls(mondays, color)]

plot_lines_mondays_first(t, exclude_weekends, sleep_time_type, color) ==
    LET mondays   == SelectSeq(t, LAMBDA r : dayofweek(r.date) = 0)
        hlines_df == with_rollingMean(mondays, exclude_weekends, sleep_time_type)
    IN  [df |-> t, calls |-> hlines_calls(hlines_df, color)]

plot_lines(t, exclude_weekends, sleep_time_type, color) ==
    LET hlines_df == with_rollingMean(t, exclude_weekends, sleep_time_type)
        mondays   == SelectSeq(hlines_df, LAMBDA r : dayofweek(r.date) = 0)
    IN  [df |-> t, calls |-> hlines_calls(mondays, color)]

\* Series.mean(): skips NaN; NaN when nothing is left.
series_mean(v) ==
    LET n == FCount(v, 1, Len(v))
    IN  IF n = 0 THEN NaN ELSE FDiv(FSum(v, 1, Len(v)), n)

plot_average_line_mondays_only(t, sleep_time_type, color) ==
    LET m == SelectSeq(t, LAMBDA r : dayofweek(r.date) = 0)
        v == [i \in 1..Len(m) |-> m[i][sleep_time_type]]
    IN  [y |-> series_mean(v), alpha |-> DATA_ALPHA, color |-> color]

\* plt.axhline(y=mean, alpha, color, linestyle='--')
plot_average_line(t, sleep_time_type, color) ==
    LET v == [i \in 1..Len(t) |-> t[i][sleep_time_type]]
    IN  [y |-> series_mean(v), alpha |-> DATA_ALPHA, color |-> color]

(* ----------------------------- inputs --------------------------------- *)

RECURSIVE SortedSeq(_)
\* The elements of a finite set of integers in increasing order.
SortedSeq(S) ==
    IF S = {} THEN << >>
    ELSE LET m == CHOOSE x \in S : \A y \in S : x >= y
         IN  Append(SortedSeq(S \ {m}), m)

ProfileIds == {1, 2, 3}

Num(n) == [num |-> n, den |-> 1]

\* The deepSleepTime and shallowSleepTime cells (minutes) of the row of day d.
DeepCell(p, d) ==
    IF p = 1 THEN Num(120)
    ELSE IF p = 3 /\ d = 0 THEN NaN
    ELSE Num(30 * (d % 4) + 15)

ShallowCell(p, d) ==
    IF p = 1 THEN Num(60)
    ELSE IF p = 3 /\ d = 3 THEN NaN
    ELSE Num(20 * (d % 3) + 40)

\* A CSV file with one row per day of `days`, in date order; when `bad`,
\* the date of its first row is written YYYY/MM/DD.
CsvFile(days, p, bad) ==
    LET s == SortedSeq(days)
    IN  [i \in 1..Len(s) |->
            [date             |-> [fmt |-> IF bad /\ i = 1 THEN "%Y/%m/%d" ELSE "%Y-%m-%d",
                                   day |-> s[i]],
             deepSleepTime    |-> DeepCell(p, s[i]),
             shallowSleepTime |-> ShallowCell(p, s[i]),
             start            |-> s[i] * 86400 - 3600,
             stop             |-> s[i] * 86400 + 21600]]

AfterChoices  == {NoDate, 0, 2}
BeforeChoices == {NoDate, MaxDay, MaxDay - 2}

(* --------------------------- state machine ---------------------------- *)

Init ==
    /\ pc = "parse_args"
    /\ k = 1
    /\ \E days \in (SUBSET (0..MaxDay)) \ {{}}, p \in ProfileIds, bad \in BOOLEAN :
          csv = CsvFile(days, p, bad)
    /\ \E a \in AfterChoices, b \in BeforeChoices, w \in BOOLEAN :
          args = [after |-> a, before |-> b, exclude_weekends |-> w]
    /\ df = << >>
    /\ dots = << >>
    /\ hlines = << >>
    /\ axhlines = << >>
    /\ outFile \in {"absent", "old"}
    /\ inHandles = 0
    /\ outHandles = 0
    /\ raised = "none"

\* parser.parse_args(): argparse.FileType('r') opens the input file and
\* argparse.FileType('w') opens the output file for writing, which creates
\* it or truncates it.  Neither handle is closed by main().
ParseArgs ==
    /\ pc = "parse_args"
    /\ inHandles' = inHandles + 1
    /\ outHandles' = outHandles + 1
    /\ outFile' = "empty"
    /\ pc' = "load_data"
    /\ UNCHANGED <<k, csv, args, df, dots, hlines, axhlines, raised>>

\* df = load_data(...): pd.read_csv opens the file by name and closes it
\* before returning.
LoadData ==
    /\ pc = "load_data"
    /\ ~LoadRaises(csv)
    /\ df' = load_data(csv)
    /\ pc' = "filter_data"
    /\ UNCHANGED <<k, csv, args, dots, hlines, axhlines, outFile,
                   inHandles, outHandles, raised>>

\* load_data raises ValueError; nothing catches it and the interpreter exits.
LoadDataFails ==
    /\ pc = "load_data"
    /\ LoadRaises(csv)
    /\ raised' = "ValueError"
    /\ pc' = "exit"
    /\ UNCHANGED <<k, csv, args, df, dots, hlines, axhlines, outFile,
                   inHandles, outHandles>>

FilterData ==
    /\ pc = "filter_data"
    /\ df' = filter_data(df, args.after, args.before, args.exclude_weekends)
    /\ pc' = "initialize_plot"
    /\ UNCHANGED <<k, csv, args, dots, hlines, axhlines, outFile,
                   inHandles, outHandles, raised>>

InitializePlot ==
    /\ pc = "initialize_plot"
    /\ pc' = IF k <= Len(SLEEP_TIME_TYPES) THEN "plot_dots" ELSE "render_plot"
    /\ UNCHANGED <<k, csv, args, df, dots, hlines, axhlines, outFile,
                   inHandles, outHandles, raised>>

PlotDots ==
    /\ pc = "plot_dots"
    /\ dots' = Append(dots, plot_dots(df, SLEEP_TIME_TYPES[k].key, SLEEP_TIME_TYPES[k].color))
    /\ pc' = "plot_lines"
    /\ UNCHANGED <<k, csv, args, df, hlines, axhlines, outFile,
                   inHandles, outHandles, raised>>

PlotLines ==
    /\ pc = "plot_lines"
    /\ LET r == plot_lines(df, args.exclude_weekends,
                           SLEEP_TIME_TYPES[k].key, SLEEP_TIME_TYPES[k].color)
       IN  /\ df' = r.df
           /\ hlines' = hlines \o r.calls
    /\ pc' = "plot_average_line"
    /\ UNCHANGED <<k, csv, args, dots, axhlines, outFile,
                   inHandles, outHandles, raised>>

PlotAverageLine ==
    /\ pc = "plot_average_line"
    /\ axhlines' = Append(axhlines,
                          plot_average_line(df, SLEEP_TIME_TYPES[k].key, SLEEP_TIME_TYPES[k].color))
    /\ k' = k + 1
    /\ pc' = IF k + 1 <= Len(SLEEP_TIME_TYPES) THEN "plot_dots" ELSE "render_plot"
    /\ UNCHANGED <<csv, args, df, dots, hlines, outFile,
                   inHandles, outHandles, raised>>

\* render_plot: plt.savefig(file_path) opens the output path by name,
\* writes the image and closes it.
RenderPlot ==
    /\ pc = "render_plot"
    /\ outFile' = "image"
    /\ pc' = "exit"
    /\ UNCHANGED <<k, csv, args, df, dots, hlines, axhlines,
                   inHandles, outHandles, raised>>

\* Interpreter exit: the handles argparse opened are released only here.
Exit ==
    /\ pc = "exit"
    /\ inHandles' = 0
    /\ outHandles' = 0
    /\ pc' = "done"
    /\ UNCHANGED <<k, csv, args, df, dots, hlines, axhlines, outFile, raised>>

Next ==
    \/ ParseArgs
    \/ LoadData
    \/ LoadDataFails
    \/ FilterData
    \/ InitializePlot
    \/ PlotDots
    \/ PlotLines
    \/ PlotAverageLine
    \/ RenderPlot
    \/ Exit

Spec == Init /\ [][Next]_vars

\* Exit status of the interpreter.
ExitCode == IF raised = "none" THEN 0 ELSE 1


(* ------------------------ progress predicates ------------------------- *)

\* load_data has returned.
Loaded == raised = "none" /\ pc \notin {"parse_args", "load_data"}

\* filter_data has returned.
Filtered == Loaded /\ pc # "filter_data"

\* plot_lines has returned for the j-th sleep time type.
LinesPlotted(j) == Filtered /\ (j < k \/ (j = k /\ pc = "plot_average_line"))

\* plot_average_line has returned for the j-th sleep time type.
AveragePlotted(j) == Filtered /\ j < k

TypeIds == 1..Len(SLEEP_TIME_TYPES)

\* A value in hours, in minutes (exact: every value is a number of minutes / 60).
Minutes(v) == (v.num * 60) \div v.den

RECURSIVE MinutesSum(_, _, _, _)
\* Sum, in minutes, of column key of t over the positions lo..hi, skipping
\* missing values.
MinutesSum(t, key, lo, hi) ==
    IF lo > hi THEN 0
    ELSE MinutesSum(t, key, lo, hi - 1)
         + (IF IsNaN(t[hi][key]) THEN 0 ELSE Minutes(t[hi][key]))

WindowSize == IF args.exclude_weekends THEN 5 ELSE 7

(* ------------------------------- C1 ----------------------------------- *)

Qualifies(r) ==
    /\ args.after = NoDate \/ r.date > args.after
    /\ args.before = NoDate \/ r.date < args.before
    /\ ~args.exclude_weekends \/ dayofweek(r.date) \in 0..4

\* C1: filter_data returns exactly the rows that satisfy all three
\* conditions (date > after when given, date < before when given, Monday to
\* Friday when weekends are excluded), in their original order; a row dated
\* exactly after or exactly before is not in the result.
C1_FilterContract ==
    Filtered =>
        /\ df = SelectSeq(load_data(csv), Qualifies)
        /\ \A i \in 1..Len(df) :
              df[i].date # args.after /\ df[i].date # args.before

\* A filtered table that lost a row dated `after`, a row dated `before` and
\* a weekend row inside the bounds, and kept at least two rows.
C1_Witness ==
    /\ Filtered
    /\ args.exclude_weekends
    /\ \E i \in 1..Len(csv) : csv[i].date.day = args.after
    /\ \E i \in 1..Len(csv) : csv[i].date.day = args.before
    /\ \E i \in 1..Len(csv) :
          /\ csv[i].date.day > args.after
          /\ csv[i].date.day < args.before
          /\ dayofweek(csv[i].date.day) >= 5
    /\ Len(df) >= 2

(* ------------------------------- C2 ----------------------------------- *)

\* C2: a run whose load_data fails ends with a non-zero exit status and at
\* no point has a file at the output path been created, truncated or written
\* by that run.
C2_NoOutputOnFailedLoad ==
    raised # "none" =>
        /\ outFile \in {"absent", "old"}
        /\ pc = "done" => ExitCode # 0

(* ------------------------------- C3 ----------------------------------- *)

IsWindowMean(y, t, key, i) ==
    IF \E m \in (i - WindowSize + 1)..i : IsNaN(t[m][key])
    THEN IsNaN(y)
    ELSE /\ y.den > 0
         /\ y.num * 60 * WindowSize
              = y.den * MinutesSum(t, key, i - WindowSize + 1, i)

\* C5: a Monday row with at least W rows up to and including itself gets
\* one segment per sleep time type, whose height is the mean of the type's
\* values over that row and the W-1 rows right before it in the whole
\* filtered table, and which spans from 7 days before the Monday to the
\* Monday.
C5_MondaySegmentIsWindowMean ==
    \A j \in TypeIds : LinesPlotted(j) =>
        \A i \in 1..Len(df) :
            (dayofweek(df[i].date) = 0 /\ i >= WindowSize) =>
                LET segs == {n \in 1..Len(hlines) :
                                /\ hlines[n].colors = SLEEP_TIME_TYPES[j].color
                                /\ hlines[n].xmax = df[i].date}
                IN  /\ Cardinality(segs) = 1
                    /\ \A n \in segs :
                          /\ hlines[n].xmin = df[i].date - 7
                          /\ IsWindowMean(hlines[n].y, df, SLEEP_TIME_TYPES[j].key, i)

\* A finished run without weekend exclusion whose table has more rows than
\* the window, so the window of its last Monday leaves the first row out,
\* with a segment of defined height other than 3 hours.
C5_Witness ==
    /\ pc = "done" /\ raised = "none"
    /\ ~args.exclude_weekends
    /\ Len(df) > WindowSize
    /\ dayofweek(df[Len(df)].date) = 0
    /\ \E n \in 1..Len(hlines) :
          /\ hlines[n].xmax = df[Len(df)].date
          /\ ~IsNaN(hlines[n].y)
          /\ hlines[n].y # Num(3)

(* ------------------------------- C6 ----------------------------------- *)

\* y is the arithmetic mean of the non-missing values of column key of t.
IsColumnMean(y, t, key) ==
    LET n == Cardinality({i \in 1..Len(t) : ~IsNaN(t[i][key])})
    IN  IF n = 0 THEN IsNaN(y)
        ELSE /\ y.den > 0
             /\ y.num * 60 * n = y.den * MinutesSum(t, key, 1, Len(t))

\* C6: for a non-empty filtered table plot_average_line draws exactly one
\* horizontal line per sleep time type, at the mean of the type's
\* non-missing values over all rows; when every row has the same value v
\* the line is at v.
C6_AverageLineIsColumnMean ==
    \A j \in TypeIds : (AveragePlotted(j) /\ df # << >>) =>
        LET key  == SLEEP_TIME_TYPES[j].key
            mine == {n \in 1..Len(axhlines) :
                        axhlines[n].color = SLEEP_TIME_TYPES[j].color}
        IN  /\ Cardinality(mine) = 1
            /\ \A n \in mine :
                  /\ IsColumnMean(axhlines[n].y, df, key)
                  /\ (\A i \in 1..Len(df) : df[i][key] = df[1][key])
                        => axhlines[n].y = df[1][key]

\* A finished run over a table with a Monday row, non-Monday rows, a missing
\* deep value and present deep values.
C6_Witness ==
    /\ pc = "done" /\ raised = "none"
    /\ Len(df) >= 3
    /\ Len(axhlines) = 3
    /\ \E i \in 1..Len(df) : dayofweek(df[i].date) = 0
    /\ \E i \in 1..Len(df) : dayofweek(df[i].date) # 0
    /\ \E i \in 1..Len(df) : IsNaN(df[i].deepSleepTime)
    /\ \E i \in 1..Len(df) : ~IsNaN(df[i].deepSleepTime)
    /\ \A n \in 1..Len(axhlines) : ~IsNaN(axhlines[n].y)

(* ------------------------------- C7 ----------------------------------- *)

\* The row of the input file dated d.
SourceRow(d) == csv[CHOOSE i \in 1..Len(csv) : csv[i].date.day = d]

\* C7: in every state after load_data has returned, every row of the table
\* has totalSleepTime = deepSleepTime + shallowSleepTime, deep and shallow
\* being the minutes of the input file divided by 60 (a missing value makes
\* the total missing).
C7_TotalIsDeepPlusShallow ==
    Loaded =>
        \A i \in 1..Len(df) :
            LET r   == df[i]
                src == SourceRow(r.date)
            IN  IF IsNaN(src.deepSleepTime) \/ IsNaN(src.shallowSleepTime)
                THEN IsNaN(r.totalSleepTime)
                ELSE /\ r.deepSleepTime.den > 0
                     /\ r.shallowSleepTime.den > 0
                     /\ r.totalSleepTime.den > 0
                     /\ r.deepSleepTime.num * 60
                          = r.deepSleepTime.den * src.deepSleepTime.num
                     /\ r.shallowSleepTime.num * 60
                          = r.shallowSleepTime.den * src.shallowSleepTime.num
                     /\ r.totalSleepTime.num * r.deepSleepTime.den * r.shallowSleepTime.den
                          = r.totalSleepTime.den
                              * (r.deepSleepTime.num * r.shallowSleepTime.den
                                 + r.shallowSleepTime.num * r.deepSleepTime.den)

\* A finished run whose table has rows with different, defined totals.
C7_Witness ==
    /\ pc = "done" /\ raised = "none"
    /\ \E i, j \in 1..Len(df) :
          /\ ~IsNaN(df[i].totalSleepTime)
          /\ ~IsNaN(df[j].totalSleepTime)
          /\ df[i].totalSleepTime # df[j].totalSleepTime

(* ------------------------------- C8 ----------------------------------- *)

\* C8: filter_data applied with the same arguments to its own result
\* returns that result.
C8_FilterIdempotent ==
    Filtered =>
        filter_data(df, args.after, args.before, args.exclude_weekends) = df

\* A filtered table, with both bounds and weekend exclusion in force, that
\* kept some rows and lost some.
C8_Witness ==
    /\ Filtered
    /\ args.after # NoDate /\ args.before # NoDate /\ args.exclude_weekends
    /\ Len(df) >= 2
    /\ Len(df) < Len(csv)

(* ------------------------------- C9 ----------------------------------- *)

\* C9: once filter_data has returned, no later step changes the table: its
\* rows, their order, their columns and their values stay the same.
C9_TableReadOnlyAfterFilter == [][Filtered => df' = df]_vars

\* All three types plotted from a table with a Monday row and other rows.
C9_Witness ==
    /\ pc = "render_plot"
    /\ Len(df) >= 2
    /\ Len(hlines) >= 3
    /\ Len(dots) = 3 /\ Len(axhlines) = 3

(* ------------------------------- C10 ---------------------------------- *)

\* C10: no handle on the input file is open in any state after the load
\* stage, and no handle on the output file is open in any state before the
\* save operation starts.
C10_HandlesScopedToStages ==
    /\ pc \notin {"parse_args", "load_data"} => inHandles = 0
    /\ pc \in {"parse_args", "load_data", "filter_data", "initialize_plot",
               "plot_dots", "plot_lines", "plot_average_line", "render_plot"}
          => outHandles = 0

====
